---- MODULE Spec2Model ----
(***************************************************************************)
(* State-machine model of the speech transcriber's audio engine            *)
(* (src/audio_manager.py, class AudioManager) and of the hotkey path of    *)
(* the application (src/main.py, class SpeechTranscriber).                 *)
(*                                                                         *)
(* Threads of the program:                                                 *)
(*   - controller threads calling start / stop / start_recording /         *)
(*     stop_recording (one in Spec, two in SpecConc); in SpecKeys the      *)
(*     controller is the keyboard listener thread, which runs              *)
(*     on_key_press / on_key_release and, through them, toggle;            *)
(*   - the hardware callback thread running audio_callback;                *)
(*   - the worker threads running _process_audio_thread.                   *)
(* Every method is cut into steps at its reads and writes of the shared    *)
(* fields; a label "m_N" is the statement at line N of the source file.    *)
(* Samples are numbered 1, 2, 3, ... in the order the hardware delivers    *)
(* them, so that equal contents mean equal samples.                        *)
(***************************************************************************)
EXTENDS Integers, Sequences, FiniteSets, TLC

\* ---------------------------------------------------------------- bounds
MaxFrames == 2          \* hardware frames delivered in a run of Spec
MaxFrameLen == 2        \* longest hardware frame in Spec, in samples
MaxCalls == 3           \* calls made by the controller thread in Spec
MaxFaults == 1          \* injected failures (stream open/start/stop/close, process_func, save)
MaxConcCalls == 2       \* calls of the first thread in a run of SpecConc
MaxPeerCalls == 1       \* calls of the second thread in a run of SpecConc or SpecTrans
MaxConcFrames == 1      \* hardware frames delivered in a run of SpecConc
MaxRecCalls == 4        \* calls made by the controller thread in SpecRec
MaxRecFrames == 2       \* hardware frames delivered in a run of SpecRec
MaxChunkFrames == 3     \* hardware frames delivered in a run of SpecChunk
MaxChunkFrameLen == 3   \* longest hardware frame in SpecChunk
MaxKeyEvents == 3       \* keyboard events in a run of SpecKeys
MaxKeyFrames == 2       \* hardware frames delivered in a run of SpecKeys
MaxTime == 4            \* the clock of SpecKeys stops here (units of 0.25 s)
SampleRate == 2         \* sample_rate, samples per second (scaled down from 16000)
ChunkQuarters == 4      \* chunk_duration in units of 0.25 s
FeedChunkQuarters == 8  \* chunk_duration of SpecFeed: the default 2.0 s, in units of 0.25 s
FeedQuarters == 10      \* samples fed in SpecFeed: 2.5 s of audio, in units of 0.25 s
MaxLiveCalls == 3       \* calls of start()/stop() in a run of SpecLive
MaxLiveFrames == 2      \* frames delivered in a run of SpecLive
MaxTransCalls == 2      \* calls the first thread makes to the Transcriber in SpecTrans
MaxAnyRate == 3         \* largest sample_rate passed to the constructor in SpecAny
MaxAnyQuarters == 4     \* largest chunk_duration passed to it, in units of 0.25 s
MaxAnyFrames == 2       \* frames delivered in a run of SpecAny
MaxAnyFrameLen == 3     \* samples per frame in a run of SpecAny

\* main.py line 182: time.time() - self.last_toggle_time > 0.5, in units of 0.25 s
DebounceTicks == 2

\* main.py lines 26-31: Hyper + backtick (the four modifiers are one key here), or F12
Keys == {"hyper", "backtick", "f12"}
TOGGLE_COMBOS == {{"hyper", "backtick"}, {"f12"}}

Threads == {1, 2}

VARIABLES
    sample_rate,        \* self.sample_rate
    chunk_duration,     \* self.chunk_duration, in units of 0.25 s
    is_running,         \* AudioManager.is_running
    is_recording,       \* AudioManager.is_recording
    stream,             \* self.stream: 0 is None, n > 0 is the n-th stream object
    audio_queue,        \* self.audio_queue: sequence of frames
    accumulated_audio,  \* self.accumulated_audio (the RollingBuffer)
    recording_buffer,   \* self.recording_buffer (the SessionBuffer)
    processing_thread,  \* self.processing_thread: 0 is None, n > 0 is worker n
    hw,                 \* hw[n]: state of the n-th hardware stream ever constructed
    pc,                 \* pc[t]: statement the controller thread t is at
    stack,              \* stack[t]: return addresses of thread t
    process_func,       \* process_func[t]: start() was given a processing callback
    call,               \* call[t]: the top-level call thread t is in, or made last
    retval,             \* retval[t]: value returned by the last method that returned
    cb,                 \* the hardware callback thread: [pc, data]
    wk,                 \* wk[n]: the n-th worker thread: [pc, loc]
    emitted,            \* the invocations of process_func, in order
    frames,             \* the frames delivered by the hardware, in order
    marks,              \* frame counts at the bounds of the latest recording session
    callsLeft,          \* callsLeft[t]: calls thread t may still make
    framesLeft,         \* frames the hardware may still deliver
    faultsLeft,         \* failures that may still be injected
    maxFrameLen,        \* longest frame the hardware delivers in this run
    app_is_recording,   \* SpeechTranscriber.is_recording
    is_active,          \* SpeechTranscriber.is_active
    current_keys,       \* SpeechTranscriber.current_keys
    last_toggle_time,   \* SpeechTranscriber.last_toggle_time; -1: attribute not set
    listener,           \* the keyboard listener thread: "running" or "stopped"
    keyq,               \* keyboard events delivered and not yet handled
    now,                \* time.time(), in units of 0.25 s
    signals,            \* the toggle signals handled so far: [at, executed]
    audio_data,         \* toggle's local audio_data
    saved,              \* the samples written by save_recording, one entry per file
    event,              \* the keyboard event the listener thread is handling
    keysLeft,           \* keyboard events that may still be delivered
    is_loaded,          \* Transcriber.is_loaded
    is_processing,      \* Transcriber.is_processing
    tr                  \* tr[t]: the transcription call thread t is in, or made last

avars == <<is_running, is_recording, stream, audio_queue, accumulated_audio,
           recording_buffer, processing_thread>>
vars == <<sample_rate, chunk_duration, is_running, is_recording, stream, audio_queue,
          accumulated_audio, recording_buffer, processing_thread, hw, pc, stack,
          process_func, call, retval, cb, wk, emitted,
          frames, marks, callsLeft, framesLeft, faultsLeft, maxFrameLen,
          app_is_recording, is_active, current_keys, last_toggle_time, listener, keyq,
          now, signals, audio_data, saved, event, keysLeft,
          is_loaded, is_processing, tr>>

\* ---------------------------------------------------- AudioManager.__init__
\* line 26: int(sample_rate * chunk_duration)
chunk_size == (sample_rate * chunk_duration) \div 4
\* line 27: int(sample_rate * 0.5)
overlap == sample_rate \div 2

\* ----------------------------------------------------------------- helpers
RECURSIVE Flatten(_)
Flatten(fs) == IF fs = <<>> THEN <<>> ELSE Head(fs) \o Flatten(Tail(fs))

\* a[:n]
Take(a, n) == IF Len(a) <= n THEN a ELSE SubSeq(a, 1, n)

\* a[-n:]  (Python: a[-0:] is the whole array)
LastN(a, n) == IF n = 0 \/ Len(a) <= n THEN a ELSE SubSeq(a, Len(a) - n + 1, Len(a))

NumSamples == Len(Flatten(frames))

\* callback invocations begun / ended so far (the callback thread runs one at a time)
nBegun == Len(frames)
nEnded == IF cb.pc = "idle" THEN Len(frames) ELSE Len(frames) - 1

NoCall == [op |-> "none", outcome |-> "ok", active |-> FALSE, prev |-> "none"]
NoEvent == [key |-> "", kind |-> "", at |-> 0]
\* transcriber.py: no transcription call made yet. loaded0, busy0: is_loaded and
\* is_processing when the call was made; guard: what line 96 decided; called: the
\* transcription callback was invoked; result: what the call returned
NoTrans == [loaded0 |-> FALSE, busy0 |-> FALSE, guard |-> "none", called |-> FALSE,
            result |-> "none"]
NoMarks == [e1 |-> 0, b2 |-> 0, e3 |-> 0, b4 |-> 0]

\* the state of the stream object self.stream refers to
StreamState == IF stream = 0 THEN "none" ELSE hw[stream]

ActiveStreams == {n \in 1..Len(hw) : hw[n] = "active"}
OpenStreams == {n \in 1..Len(hw) : hw[n] # "closed"}
LiveWorkers == {n \in 1..Len(wk) : wk[n].pc # "exited"}

\* ------------------------------------------------------------- construction
\* AudioManager.__init__ (lines 22-42) and SpeechTranscriber.__init__ (lines 38-41)
InitCommon ==
    /\ is_running = FALSE
    /\ is_recording = FALSE
    /\ stream = 0
    /\ audio_queue = <<>>
    /\ accumulated_audio = <<>>
    /\ recording_buffer = <<>>
    /\ processing_thread = 0
    /\ hw = <<>>
    /\ pc = [t \in Threads |-> "idle"]
    /\ stack = [t \in Threads |-> <<>>]
    /\ process_func = [t \in Threads |-> FALSE]
    /\ call = [t \in Threads |-> NoCall]
    /\ retval = [t \in Threads |-> <<>>]
    /\ cb = [pc |-> "idle", data |-> <<>>]
    /\ wk = <<>>
    /\ emitted = <<>>
    /\ frames = <<>>
    /\ marks = NoMarks
    /\ app_is_recording = FALSE
    /\ is_active = FALSE
    /\ current_keys = {}
    /\ last_toggle_time = -1
    /\ listener = "running"
    /\ keyq = <<>>
    /\ now = 0
    /\ signals = <<>>
    /\ audio_data = <<>>
    /\ saved = <<>>
    /\ event = NoEvent
    /\ is_loaded = FALSE
    /\ is_processing = FALSE
    /\ tr = [t \in Threads |-> NoTrans]

\* one controller thread calling the AudioManager
Init ==
    /\ InitCommon
    /\ sample_rate = SampleRate
    /\ chunk_duration = ChunkQuarters
    /\ callsLeft = [t \in Threads |-> IF t = 1 THEN MaxCalls ELSE 0]
    /\ framesLeft = MaxFrames
    /\ maxFrameLen = MaxFrameLen
    /\ faultsLeft = MaxFaults
    /\ keysLeft = 0

\* two controller threads calling the AudioManager
InitConc ==
    /\ InitCommon
    /\ sample_rate = SampleRate
    /\ chunk_duration = ChunkQuarters
    /\ callsLeft = [t \in Threads |-> IF t = 1 THEN MaxConcCalls ELSE MaxPeerCalls]
    /\ framesLeft = MaxConcFrames
    /\ maxFrameLen = MaxFrameLen
    /\ faultsLeft = 0
    /\ keysLeft = 0

\* one controller thread recording sessions, without a chunk worker
InitRec ==
    /\ InitCommon
    /\ sample_rate = SampleRate
    /\ chunk_duration = ChunkQuarters
    /\ callsLeft = [t \in Threads |-> IF t = 1 THEN MaxRecCalls ELSE 0]
    /\ framesLeft = MaxRecFrames
    /\ maxFrameLen = MaxFrameLen
    /\ faultsLeft = 0
    /\ keysLeft = 0

\* one start(process_func) and a stream of frames for the chunk worker
InitChunk ==
    /\ InitCommon
    /\ sample_rate = SampleRate
    /\ chunk_duration = ChunkQuarters
    /\ callsLeft = [t \in Threads |-> IF t = 1 THEN 1 ELSE 0]
    /\ framesLeft = MaxChunkFrames
    /\ maxFrameLen = MaxChunkFrameLen
    /\ faultsLeft = MaxFaults
    /\ keysLeft = 0

\* the samples the hardware delivers in a run of SpecFeed (40000 at 16000 Hz)
FeedSamples == (SampleRate * FeedQuarters) \div 4

\* one start(process_func) with the default chunk_duration, fed FeedSamples samples
\* split into frames in every way
InitFeed ==
    /\ InitCommon
    /\ sample_rate = SampleRate
    /\ chunk_duration = FeedChunkQuarters
    /\ callsLeft = [t \in Threads |-> IF t = 1 THEN 1 ELSE 0]
    /\ framesLeft = FeedSamples
    /\ maxFrameLen = FeedSamples
    /\ faultsLeft = 0
    /\ keysLeft = 0

\* an AudioManager constructed with any sample_rate and chunk_duration, then one
\* start(process_func)
InitAny ==
    /\ InitCommon
    /\ sample_rate \in 1..MaxAnyRate
    /\ chunk_duration \in 1..MaxAnyQuarters
    /\ callsLeft = [t \in Threads |-> IF t = 1 THEN 1 ELSE 0]
    /\ framesLeft = MaxAnyFrames
    /\ maxFrameLen = MaxAnyFrameLen
    /\ faultsLeft = 0
    /\ keysLeft = 0

\* one controller thread calling start() and stop(), with fair worker threads
InitLive ==
    /\ InitCommon
    /\ sample_rate = SampleRate
    /\ chunk_duration = ChunkQuarters
    /\ callsLeft = [t \in Threads |-> IF t = 1 THEN MaxLiveCalls ELSE 0]
    /\ framesLeft = MaxLiveFrames
    /\ maxFrameLen = MaxFrameLen
    /\ faultsLeft = 0
    /\ keysLeft = 0

\* two threads calling the Transcriber
InitTrans ==
    /\ InitCommon
    /\ sample_rate = SampleRate
    /\ chunk_duration = ChunkQuarters
    /\ callsLeft = [t \in Threads |-> IF t = 1 THEN MaxTransCalls ELSE MaxPeerCalls]
    /\ framesLeft = 0
    /\ maxFrameLen = MaxFrameLen
    /\ faultsLeft = 0
    /\ keysLeft = 0

\* the application: the keyboard listener thread is thread 1
InitKeys ==
    /\ InitCommon
    /\ sample_rate = SampleRate
    /\ chunk_duration = ChunkQuarters
    /\ callsLeft = [t \in Threads |-> 0]
    /\ framesLeft = MaxKeyFrames
    /\ maxFrameLen = 1
    /\ faultsLeft = MaxFaults
    /\ keysLeft = MaxKeyEvents

\* ------------------------------------------------- control flow of a thread
\* Every step of a controller thread ends in one of Jump, JumpC, Invoke, CallFrom,
\* Return and Raise, which between them set pc, stack, call, retval and listener.
NewCall(t, name) ==
    [op |-> name, outcome |-> "running", active |-> FALSE, prev |-> call[t].op]

\* go on to the statement at label l
Jump(t, l) ==
    /\ pc' = [pc EXCEPT ![t] = l]
    /\ UNCHANGED <<stack, call, retval, listener>>

\* the same, recording what the method's guard read in the call record
JumpC(t, l, c) ==
    /\ pc' = [pc EXCEPT ![t] = l]
    /\ call' = [call EXCEPT ![t] = c]
    /\ UNCHANGED <<stack, retval, listener>>

\* a top-level call by thread t begins at label l
Invoke(t, name, l) ==
    /\ pc[t] = "idle"
    /\ callsLeft[t] > 0
    /\ callsLeft' = [callsLeft EXCEPT ![t] = @ - 1]
    /\ pc' = [pc EXCEPT ![t] = l]
    /\ stack' = [stack EXCEPT ![t] = <<>>]
    /\ call' = [call EXCEPT ![t] = NewCall(t, name)]
    /\ UNCHANGED <<retval, listener>>

\* call the method that begins at label l; the caller resumes at label to
CallFrom(t, l, to) ==
    /\ pc' = [pc EXCEPT ![t] = l]
    /\ stack' = [stack EXCEPT ![t] = <<to>> \o @]
    /\ UNCHANGED <<call, retval, listener>>

\* return v from the method thread t is in; c is t's call record at that point
Return(t, c, v) ==
    /\ retval' = [retval EXCEPT ![t] = v]
    /\ IF stack[t] = <<>>
       THEN /\ pc' = [pc EXCEPT ![t] = "idle"]
            /\ stack' = stack
            /\ call' = [call EXCEPT ![t] = [c EXCEPT !.outcome = "ok"]]
       ELSE /\ pc' = [pc EXCEPT ![t] = Head(stack[t])]
            /\ stack' = [stack EXCEPT ![t] = Tail(@)]
            /\ call' = [call EXCEPT ![t] = c]
    /\ UNCHANGED listener

\* An exception leaves every method on the stack: none of start, stop,
\* start_recording, toggle and on_key_press has a handler. An exception that leaves
\* on_key_press ends the keyboard listener thread.
Raise(t) ==
    /\ pc' = [pc EXCEPT ![t] = "idle"]
    /\ stack' = [stack EXCEPT ![t] = <<>>]
    /\ call' = [call EXCEPT ![t].outcome = "raised"]
    /\ listener' = IF call[t].op = "on_key_press" THEN "stopped" ELSE listener
    /\ UNCHANGED retval

\* =========================================================== audio_callback
\* lines 48-49: copy the delivered block and put it on the queue
AudioCallbackPut ==
    /\ cb.pc = "idle"
    /\ framesLeft > 0
    /\ ActiveStreams # {}
    /\ \E len \in 1..maxFrameLen :
        LET indata == [i \in 1..len |-> NumSamples + i] IN
        /\ frames' = Append(frames, indata)
        /\ audio_queue' = Append(audio_queue, indata)
        /\ cb' = [pc |-> "cb_52", data |-> indata]
    /\ framesLeft' = framesLeft - 1
    /\ UNCHANGED <<sample_rate, chunk_duration, is_running, is_recording, stream,
       accumulated_audio, recording_buffer, processing_thread, hw, pc, stack,
       process_func, call, retval, wk, emitted, marks, callsLeft, faultsLeft,
       maxFrameLen, app_is_recording, is_active, current_keys,
       last_toggle_time, listener, keyq, now, signals, audio_data, saved,
       event, keysLeft, is_loaded, is_processing, tr>>

\* line 52: if self.is_recording
AudioCallbackTest ==
    /\ cb.pc = "cb_52"
    /\ cb' = IF is_recording THEN [cb EXCEPT !.pc = "cb_53r"]
                             ELSE [pc |-> "idle", data |-> <<>>]
    /\ UNCHANGED <<sample_rate, chunk_duration, is_running, is_recording, stream,
       audio_queue, accumulated_audio, recording_buffer, processing_thread, hw,
       pc, stack, process_func, call, retval, wk, emitted, frames, marks,
       callsLeft, framesLeft, faultsLeft, maxFrameLen, app_is_recording,
       is_active, current_keys, last_toggle_time, listener, keyq, now, signals,
       audio_data, saved, event, keysLeft, is_loaded, is_processing, tr>>

\* line 53, right-hand side: np.append(self.recording_buffer, audio_data.flatten())
AudioCallbackAppend ==
    /\ cb.pc = "cb_53r"
    /\ cb' = [pc |-> "cb_53w", data |-> recording_buffer \o cb.data]
    /\ UNCHANGED <<sample_rate, chunk_duration, is_running, is_recording, stream,
       audio_queue, accumulated_audio, recording_buffer, processing_thread, hw,
       pc, stack, process_func, call, retval, wk, emitted, frames, marks,
       callsLeft, framesLeft, faultsLeft, maxFrameLen, app_is_recording,
       is_active, current_keys, last_toggle_time, listener, keyq, now, signals,
       audio_data, saved, event, keysLeft, is_loaded, is_processing, tr>>

\* line 53, assignment: self.recording_buffer = ...
AudioCallbackStore ==
    /\ cb.pc = "cb_53w"
    /\ recording_buffer' = cb.data
    /\ cb' = [pc |-> "idle", data |-> <<>>]
    /\ UNCHANGED <<sample_rate, chunk_duration, is_running, is_recording, stream,
       audio_queue, accumulated_audio, processing_thread, hw, pc, stack,
       process_func, call, retval, wk, emitted, frames, marks, callsLeft,
       framesLeft, faultsLeft, maxFrameLen, app_is_recording, is_active,
       current_keys, last_toggle_time, listener, keyq, now, signals,
       audio_data, saved, event, keysLeft, is_loaded, is_processing, tr>>

\* ==================================================================== start
CallStart(t) ==
    /\ Invoke(t, "start", "start_57")
    /\ \E pf \in BOOLEAN : process_func' = [process_func EXCEPT ![t] = pf]
    /\ UNCHANGED <<sample_rate, chunk_duration, is_running, is_recording, stream,
       audio_queue, accumulated_audio, recording_buffer, processing_thread, hw,
       cb, wk, emitted, frames, marks, framesLeft, faultsLeft, maxFrameLen,
       app_is_recording, is_active, current_keys, last_toggle_time, keyq, now,
       signals, audio_data, saved, event, keysLeft, is_loaded, is_processing,
       tr>>

\* line 57: if self.is_running: return
Start57(t) ==
    /\ pc[t] = "start_57"
    /\ LET c == IF call[t].op = "start" THEN [call[t] EXCEPT !.active = is_running]
                                        ELSE call[t] IN
       IF is_running THEN Return(t, c, <<>>) ELSE JumpC(t, "start_60", c)
    /\ UNCHANGED <<sample_rate, chunk_duration, is_running, is_recording, stream,
       audio_queue, accumulated_audio, recording_buffer, processing_thread, hw,
       process_func, cb, wk, emitted, frames, marks, callsLeft, framesLeft,
       faultsLeft, maxFrameLen, app_is_recording, is_active, current_keys,
       last_toggle_time, keyq, now, signals, audio_data, saved, event,
       keysLeft, is_loaded, is_processing, tr>>

\* line 60: self.is_running = True
Start60(t) ==
    /\ pc[t] = "start_60"
    /\ is_running' = TRUE
    /\ Jump(t, "start_61")
    /\ UNCHANGED <<sample_rate, chunk_duration, is_recording, stream, audio_queue,
       accumulated_audio, recording_buffer, processing_thread, hw,
       process_func, cb, wk, emitted, frames, marks, callsLeft, framesLeft,
       faultsLeft, maxFrameLen, app_is_recording, is_active, current_keys,
       last_toggle_time, keyq, now, signals, audio_data, saved, event,
       keysLeft, is_loaded, is_processing, tr>>

\* line 61: self.accumulated_audio = np.array([])
Start61(t) ==
    /\ pc[t] = "start_61"
    /\ accumulated_audio' = <<>>
    /\ Jump(t, "start_64")
    /\ UNCHANGED <<sample_rate, chunk_duration, is_running, is_recording, stream,
       audio_queue, recording_buffer, processing_thread, hw, process_func, cb,
       wk, emitted, frames, marks, callsLeft, framesLeft, faultsLeft,
       maxFrameLen, app_is_recording, is_active, current_keys,
       last_toggle_time, keyq, now, signals, audio_data, saved, event,
       keysLeft, is_loaded, is_processing, tr>>

\* lines 64-70: if process_func: create and start the worker thread
Start64(t) ==
    /\ pc[t] = "start_64"
    /\ IF process_func[t]
       THEN /\ wk' = Append(wk, [pc |-> "w_107", loc |-> <<>>])
            /\ processing_thread' = Len(wk) + 1
       ELSE UNCHANGED <<wk, processing_thread>>
    /\ Jump(t, "start_73")
    /\ UNCHANGED <<sample_rate, chunk_duration, is_running, is_recording, stream,
       audio_queue, accumulated_audio, recording_buffer, hw, process_func, cb,
       emitted, frames, marks, callsLeft, framesLeft, faultsLeft, maxFrameLen,
       app_is_recording, is_active, current_keys, last_toggle_time, keyq, now,
       signals, audio_data, saved, event, keysLeft, is_loaded, is_processing,
       tr>>

\* lines 73-80: self.stream = sd.InputStream(...); the constructor may raise
Start73(t) ==
    /\ pc[t] = "start_73"
    /\ \/ /\ hw' = Append(hw, "opened")
          /\ stream' = Len(hw) + 1
          /\ Jump(t, "start_81")
          /\ UNCHANGED faultsLeft
       \/ /\ faultsLeft > 0
          /\ faultsLeft' = faultsLeft - 1
          /\ Raise(t)
          /\ UNCHANGED <<hw, stream>>
    /\ UNCHANGED <<sample_rate, chunk_duration, is_running, is_recording, audio_queue,
       accumulated_audio, recording_buffer, processing_thread, process_func,
       cb, wk, emitted, frames, marks, callsLeft, framesLeft, maxFrameLen,
       app_is_recording, is_active, current_keys, last_toggle_time, keyq, now,
       signals, audio_data, saved, event, keysLeft, is_loaded, is_processing,
       tr>>

\* line 81: self.stream.start(); may raise
Start81(t) ==
    /\ pc[t] = "start_81"
    /\ \/ /\ StreamState = "opened"
          /\ \/ /\ hw' = [hw EXCEPT ![stream] = "active"]
                /\ Return(t, call[t], <<>>)
                /\ UNCHANGED faultsLeft
             \/ /\ faultsLeft > 0
                /\ faultsLeft' = faultsLeft - 1
                /\ Raise(t)
                /\ UNCHANGED hw
       \/ /\ StreamState # "opened"
          /\ Raise(t)
          /\ UNCHANGED <<hw, faultsLeft>>
    /\ UNCHANGED <<sample_rate, chunk_duration, is_running, is_recording, stream,
       audio_queue, accumulated_audio, recording_buffer, processing_thread,
       process_func, cb, wk, emitted, frames, marks, callsLeft, framesLeft,
       maxFrameLen, app_is_recording, is_active, current_keys,
       last_toggle_time, keyq, now, signals, audio_data, saved, event,
       keysLeft, is_loaded, is_processing, tr>>

\* ===================================================================== stop
CallStop(t) ==
    /\ Invoke(t, "stop", "stop_85")
    /\ UNCHANGED <<sample_rate, chunk_duration, is_running, is_recording, stream,
       audio_queue, accumulated_audio, recording_buffer, processing_thread, hw,
       process_func, cb, wk, emitted, frames, marks, framesLeft, faultsLeft,
       maxFrameLen, app_is_recording, is_active, current_keys,
       last_toggle_time, keyq, now, signals, audio_data, saved, event,
       keysLeft, is_loaded, is_processing, tr>>

StopIsNoOp_Never == FALSE

\* line 85, the condition: not self.is_running
StopIsNoOp == ~is_running

\* line 85: if not self.is_running: return
Stop85(t) ==
    /\ pc[t] = "stop_85"
    /\ LET c == IF call[t].op = "stop" THEN [call[t] EXCEPT !.active = is_running]
                                       ELSE call[t] IN
       IF StopIsNoOp THEN Return(t, c, <<>>) ELSE JumpC(t, "stop_88", c)
    /\ UNCHANGED <<sample_rate, chunk_duration, is_running, is_recording, stream,
       audio_queue, accumulated_audio, recording_buffer, processing_thread, hw,
       process_func, cb, wk, emitted, frames, marks, callsLeft, framesLeft,
       faultsLeft, maxFrameLen, app_is_recording, is_active, current_keys,
       last_toggle_time, keyq, now, signals, audio_data, saved, event,
       keysLeft, is_loaded, is_processing, tr>>

\* line 88: self.is_running = False
Stop88(t) ==
    /\ pc[t] = "stop_88"
    /\ is_running' = FALSE
    /\ Jump(t, "stop_90")
    /\ UNCHANGED <<sample_rate, chunk_duration, is_recording, stream, audio_queue,
       accumulated_audio, recording_buffer, processing_thread, hw,
       process_func, cb, wk, emitted, frames, marks, callsLeft, framesLeft,
       faultsLeft, maxFrameLen, app_is_recording, is_active, current_keys,
       last_toggle_time, keyq, now, signals, audio_data, saved, event,
       keysLeft, is_loaded, is_processing, tr>>

\* line 90: if self.stream
Stop90(t) ==
    /\ pc[t] = "stop_90"
    /\ Jump(t, IF stream # 0 THEN "stop_91" ELSE "stop_96")
    /\ UNCHANGED <<sample_rate, chunk_duration, is_running, is_recording, stream,
       audio_queue, accumulated_audio, recording_buffer, processing_thread, hw,
       process_func, cb, wk, emitted, frames, marks, callsLeft, framesLeft,
       faultsLeft, maxFrameLen, app_is_recording, is_active, current_keys,
       last_toggle_time, keyq, now, signals, audio_data, saved, event,
       keysLeft, is_loaded, is_processing, tr>>

\* line 91: self.stream.stop(); may raise. Stopping waits for the callback in
\* progress, and a stream whose stop() raised delivers no further callbacks.
Stop91(t) ==
    /\ pc[t] = "stop_91"
    /\ \/ /\ StreamState \notin {"none", "closed"}
          /\ cb.pc = "idle"
          /\ hw' = [hw EXCEPT ![stream] = "stopped"]
          /\ \/ /\ Jump(t, "stop_92")
                /\ UNCHANGED faultsLeft
             \/ /\ faultsLeft > 0
                /\ faultsLeft' = faultsLeft - 1
                /\ Raise(t)
       \/ /\ StreamState \in {"none", "closed"}
          /\ Raise(t)
          /\ UNCHANGED <<hw, faultsLeft>>
    /\ UNCHANGED <<sample_rate, chunk_duration, is_running, is_recording, stream,
       audio_queue, accumulated_audio, recording_buffer, processing_thread,
       process_func, cb, wk, emitted, frames, marks, callsLeft, framesLeft,
       maxFrameLen, app_is_recording, is_active, current_keys,
       last_toggle_time, keyq, now, signals, audio_data, saved, event,
       keysLeft, is_loaded, is_processing, tr>>

\* line 92: self.stream.close(); may raise
Stop92(t) ==
    /\ pc[t] = "stop_92"
    /\ \/ /\ StreamState \notin {"none", "closed"}
          /\ StreamState = "active" => cb.pc = "idle"
          /\ \/ /\ hw' = [hw EXCEPT ![stream] = "closed"]
                /\ Jump(t, "stop_93")
                /\ UNCHANGED faultsLeft
             \/ /\ faultsLeft > 0
                /\ faultsLeft' = faultsLeft - 1
                /\ hw' = [hw EXCEPT ![stream] = "stopped"]
                /\ Raise(t)
       \/ /\ StreamState \in {"none", "closed"}
          /\ Raise(t)
          /\ UNCHANGED <<hw, faultsLeft>>
    /\ UNCHANGED <<sample_rate, chunk_duration, is_running, is_recording, stream,
       audio_queue, accumulated_audio, recording_buffer, processing_thread,
       process_func, cb, wk, emitted, frames, marks, callsLeft, framesLeft,
       maxFrameLen, app_is_recording, is_active, current_keys,
       last_toggle_time, keyq, now, signals, audio_data, saved, event,
       keysLeft, is_loaded, is_processing, tr>>

\* line 93: self.stream = None
Stop93(t) ==
    /\ pc[t] = "stop_93"
    /\ stream' = 0
    /\ Jump(t, "stop_96")
    /\ UNCHANGED <<sample_rate, chunk_duration, is_running, is_recording, audio_queue,
       accumulated_audio, recording_buffer, processing_thread, hw,
       process_func, cb, wk, emitted, frames, marks, callsLeft, framesLeft,
       faultsLeft, maxFrameLen, app_is_recording, is_active, current_keys,
       last_toggle_time, keyq, now, signals, audio_data, saved, event,
       keysLeft, is_loaded, is_processing, tr>>

StopDrainDone_Always == TRUE

\* line 96, the loop condition negated: self.audio_queue.empty()
StopDrainDone == audio_queue = <<>>

\* lines 96-100: while not self.audio_queue.empty(): get_nowait()
Stop96(t) ==
    /\ pc[t] = "stop_96"
    /\ IF ~StopDrainDone
       THEN /\ audio_queue' = Tail(audio_queue)
            /\ Jump(t, "stop_96")
       ELSE /\ Jump(t, "stop_103")
            /\ UNCHANGED audio_queue
    /\ UNCHANGED <<sample_rate, chunk_duration, is_running, is_recording, stream,
       accumulated_audio, recording_buffer, processing_thread, hw,
       process_func, cb, wk, emitted, frames, marks, callsLeft, framesLeft,
       faultsLeft, maxFrameLen, app_is_recording, is_active, current_keys,
       last_toggle_time, keyq, now, signals, audio_data, saved, event,
       keysLeft, is_loaded, is_processing, tr>>

\* line 103: self.accumulated_audio = np.array([])
Stop103(t) ==
    /\ pc[t] = "stop_103"
    /\ accumulated_audio' = <<>>
    /\ Return(t, call[t], <<>>)
    /\ UNCHANGED <<sample_rate, chunk_duration, is_running, is_recording, stream,
       audio_queue, recording_buffer, processing_thread, hw, process_func, cb,
       wk, emitted, frames, marks, callsLeft, framesLeft, faultsLeft,
       maxFrameLen, app_is_recording, is_active, current_keys,
       last_toggle_time, keyq, now, signals, audio_data, saved, event,
       keysLeft, is_loaded, is_processing, tr>>

\* ========================================================== start_recording
CallStartRecording(t) ==
    /\ Invoke(t, "start_recording", "startrec_140")
    /\ UNCHANGED <<sample_rate, chunk_duration, is_running, is_recording, stream,
       audio_queue, accumulated_audio, recording_buffer, processing_thread, hw,
       process_func, cb, wk, emitted, frames, marks, framesLeft, faultsLeft,
       maxFrameLen, app_is_recording, is_active, current_keys,
       last_toggle_time, keyq, now, signals, audio_data, saved, event,
       keysLeft, is_loaded, is_processing, tr>>

\* line 140: self.recording_buffer = np.array([])
StartRec140(t) ==
    /\ pc[t] = "startrec_140"
    /\ recording_buffer' = <<>>
    /\ marks' = [e1 |-> nEnded, b2 |-> 0, e3 |-> 0, b4 |-> 0]
    /\ Jump(t, "startrec_141")
    /\ UNCHANGED <<sample_rate, chunk_duration, is_running, is_recording, stream,
       audio_queue, accumulated_audio, processing_thread, hw, process_func, cb,
       wk, emitted, frames, callsLeft, framesLeft, faultsLeft, maxFrameLen,
       app_is_recording, is_active, current_keys, last_toggle_time, keyq, now,
       signals, audio_data, saved, event, keysLeft, is_loaded, is_processing,
       tr>>

\* line 141: self.is_recording = True
StartRec141(t) ==
    /\ pc[t] = "startrec_141"
    /\ is_recording' = TRUE
    /\ Jump(t, "startrec_144")
    /\ UNCHANGED <<sample_rate, chunk_duration, is_running, stream, audio_queue,
       accumulated_audio, recording_buffer, processing_thread, hw,
       process_func, cb, wk, emitted, frames, marks, callsLeft, framesLeft,
       faultsLeft, maxFrameLen, app_is_recording, is_active, current_keys,
       last_toggle_time, keyq, now, signals, audio_data, saved, event,
       keysLeft, is_loaded, is_processing, tr>>

StartRecNeedsStart_Never == FALSE

\* line 144, the condition: not self.is_running
StartRecNeedsStart == ~is_running

\* lines 144-145: if not self.is_running: self.start(None)
StartRec144(t) ==
    /\ pc[t] = "startrec_144"
    /\ IF StartRecNeedsStart
       THEN /\ CallFrom(t, "start_57", "startrec_145")
            /\ process_func' = [process_func EXCEPT ![t] = FALSE]
            /\ UNCHANGED marks
       ELSE /\ Return(t, call[t], <<>>)
            /\ marks' = [marks EXCEPT !.b2 = nBegun]
            /\ UNCHANGED process_func
    /\ UNCHANGED <<sample_rate, chunk_duration, is_running, is_recording, stream,
       audio_queue, accumulated_audio, recording_buffer, processing_thread, hw,
       cb, wk, emitted, frames, callsLeft, framesLeft, faultsLeft, maxFrameLen,
       app_is_recording, is_active, current_keys, last_toggle_time, keyq, now,
       signals, audio_data, saved, event, keysLeft, is_loaded, is_processing,
       tr>>

\* line 145, after self.start(None) has returned: start_recording returns
StartRec145(t) ==
    /\ pc[t] = "startrec_145"
    /\ Return(t, call[t], <<>>)
    /\ marks' = [marks EXCEPT !.b2 = nBegun]
    /\ UNCHANGED <<sample_rate, chunk_duration, is_running, is_recording, stream,
       audio_queue, accumulated_audio, recording_buffer, processing_thread, hw,
       process_func, cb, wk, emitted, frames, callsLeft, framesLeft,
       faultsLeft, maxFrameLen, app_is_recording, is_active, current_keys,
       last_toggle_time, keyq, now, signals, audio_data, saved, event,
       keysLeft, is_loaded, is_processing, tr>>

\* =========================================================== stop_recording
CallStopRecording(t) ==
    /\ Invoke(t, "stop_recording", "stoprec_149")
    /\ UNCHANGED <<sample_rate, chunk_duration, is_running, is_recording, stream,
       audio_queue, accumulated_audio, recording_buffer, processing_thread, hw,
       process_func, cb, wk, emitted, frames, marks, framesLeft, faultsLeft,
       maxFrameLen, app_is_recording, is_active, current_keys,
       last_toggle_time, keyq, now, signals, audio_data, saved, event,
       keysLeft, is_loaded, is_processing, tr>>

\* lines 149-150: if not self.is_recording: return np.array([])
StopRec149(t) ==
    /\ pc[t] = "stoprec_149"
    /\ LET c == IF call[t].op = "stop_recording"
                THEN [call[t] EXCEPT !.active = is_recording] ELSE call[t] IN
       IF ~is_recording THEN Return(t, c, <<>>) ELSE JumpC(t, "stoprec_153", c)
    /\ marks' = IF is_recording THEN [marks EXCEPT !.e3 = nEnded] ELSE marks
    /\ UNCHANGED <<sample_rate, chunk_duration, is_running, is_recording, stream,
       audio_queue, accumulated_audio, recording_buffer, processing_thread, hw,
       process_func, cb, wk, emitted, frames, callsLeft, framesLeft,
       faultsLeft, maxFrameLen, app_is_recording, is_active, current_keys,
       last_toggle_time, keyq, now, signals, audio_data, saved, event,
       keysLeft, is_loaded, is_processing, tr>>

\* line 153: self.is_recording = False
StopRec153(t) ==
    /\ pc[t] = "stoprec_153"
    /\ is_recording' = FALSE
    /\ Jump(t, "stoprec_154")
    /\ UNCHANGED <<sample_rate, chunk_duration, is_running, stream, audio_queue,
       accumulated_audio, recording_buffer, processing_thread, hw,
       process_func, cb, wk, emitted, frames, marks, callsLeft, framesLeft,
       faultsLeft, maxFrameLen, app_is_recording, is_active, current_keys,
       last_toggle_time, keyq, now, signals, audio_data, saved, event,
       keysLeft, is_loaded, is_processing, tr>>

\* line 154: return self.recording_buffer.copy()
StopRec154(t) ==
    /\ pc[t] = "stoprec_154"
    /\ Return(t, call[t], recording_buffer)
    /\ marks' = [marks EXCEPT !.b4 = nBegun]
    /\ UNCHANGED <<sample_rate, chunk_duration, is_running, is_recording, stream,
       audio_queue, accumulated_audio, recording_buffer, processing_thread, hw,
       process_func, cb, wk, emitted, frames, callsLeft, framesLeft,
       faultsLeft, maxFrameLen, app_is_recording, is_active, current_keys,
       last_toggle_time, keyq, now, signals, audio_data, saved, event,
       keysLeft, is_loaded, is_processing, tr>>

\* ==================================================== _process_audio_thread
WGoto(w, l, v) == wk' = [wk EXCEPT ![w] = [pc |-> l, loc |-> v]]

WorkerContinues_Always == TRUE

\* line 107, the loop condition: self.is_running
WorkerContinues == is_running

\* line 107: while self.is_running
Worker107(w) ==
    /\ wk[w].pc = "w_107"
    /\ WGoto(w, IF WorkerContinues THEN "w_110" ELSE "exited", <<>>)
    /\ UNCHANGED <<sample_rate, chunk_duration, is_running, is_recording, stream,
       audio_queue, accumulated_audio, recording_buffer, processing_thread, hw,
       pc, stack, process_func, call, retval, cb, emitted, frames, marks,
       callsLeft, framesLeft, faultsLeft, maxFrameLen, app_is_recording,
       is_active, current_keys, last_toggle_time, listener, keyq, now, signals,
       audio_data, saved, event, keysLeft, is_loaded, is_processing, tr>>

\* line 110: self.audio_queue.get(timeout=0.5).flatten(); queue.Empty: continue
Worker110(w) ==
    /\ wk[w].pc = "w_110"
    /\ IF audio_queue # <<>>
       THEN /\ audio_queue' = Tail(audio_queue)
            /\ WGoto(w, "w_111r", Head(audio_queue))
       ELSE /\ WGoto(w, "w_107", <<>>)
            /\ UNCHANGED audio_queue
    /\ UNCHANGED <<sample_rate, chunk_duration, is_running, is_recording, stream,
       accumulated_audio, recording_buffer, processing_thread, hw, pc, stack,
       process_func, call, retval, cb, emitted, frames, marks, callsLeft,
       framesLeft, faultsLeft, maxFrameLen, app_is_recording, is_active,
       current_keys, last_toggle_time, listener, keyq, now, signals,
       audio_data, saved, event, keysLeft, is_loaded, is_processing, tr>>

\* line 111, right-hand side: np.concatenate((self.accumulated_audio, audio_chunk))
Worker111Concat(w) ==
    /\ wk[w].pc = "w_111r"
    /\ WGoto(w, "w_111w", accumulated_audio \o wk[w].loc)
    /\ UNCHANGED <<sample_rate, chunk_duration, is_running, is_recording, stream,
       audio_queue, accumulated_audio, recording_buffer, processing_thread, hw,
       pc, stack, process_func, call, retval, cb, emitted, frames, marks,
       callsLeft, framesLeft, faultsLeft, maxFrameLen, app_is_recording,
       is_active, current_keys, last_toggle_time, listener, keyq, now, signals,
       audio_data, saved, event, keysLeft, is_loaded, is_processing, tr>>

\* line 111, assignment: self.accumulated_audio = ...
Worker111Store(w) ==
    /\ wk[w].pc = "w_111w"
    /\ accumulated_audio' = wk[w].loc
    /\ WGoto(w, "w_114", <<>>)
    /\ UNCHANGED <<sample_rate, chunk_duration, is_running, is_recording, stream,
       audio_queue, recording_buffer, processing_thread, hw, pc, stack,
       process_func, call, retval, cb, emitted, frames, marks, callsLeft,
       framesLeft, faultsLeft, maxFrameLen, app_is_recording, is_active,
       current_keys, last_toggle_time, listener, keyq, now, signals,
       audio_data, saved, event, keysLeft, is_loaded, is_processing, tr>>

\* line 114: if len(self.accumulated_audio) >= self.chunk_size
Worker114(w) ==
    /\ wk[w].pc = "w_114"
    /\ WGoto(w, IF Len(accumulated_audio) >= chunk_size THEN "w_118" ELSE "w_107", <<>>)
    /\ UNCHANGED <<sample_rate, chunk_duration, is_running, is_recording, stream,
       audio_queue, accumulated_audio, recording_buffer, processing_thread, hw,
       pc, stack, process_func, call, retval, cb, emitted, frames, marks,
       callsLeft, framesLeft, faultsLeft, maxFrameLen, app_is_recording,
       is_active, current_keys, last_toggle_time, listener, keyq, now, signals,
       audio_data, saved, event, keysLeft, is_loaded, is_processing, tr>>

\* lines 118-122: audio_to_process = self.accumulated_audio[:self.chunk_size].copy();
\* np.max of an empty array raises, which the handler of line 134 catches
Worker118(w) ==
    /\ wk[w].pc = "w_118"
    /\ LET audio_to_process == Take(accumulated_audio, chunk_size) IN
       IF audio_to_process = <<>>
       THEN WGoto(w, "w_107", <<>>)
       ELSE WGoto(w, "w_126", audio_to_process)
    /\ UNCHANGED <<sample_rate, chunk_duration, is_running, is_recording, stream,
       audio_queue, accumulated_audio, recording_buffer, processing_thread, hw,
       pc, stack, process_func, call, retval, cb, emitted, frames, marks,
       callsLeft, framesLeft, faultsLeft, maxFrameLen, app_is_recording,
       is_active, current_keys, last_toggle_time, listener, keyq, now, signals,
       audio_data, saved, event, keysLeft, is_loaded, is_processing, tr>>

AfterProcessFunc_Propagate(failed) == IF failed THEN "w_107" ELSE "w_131r"

\* lines 125-128: the except clause catches what process_func raises, so the
\* statement after the try (line 131) comes next whether it raised or not
AfterProcessFunc(failed) == "w_131r"

\* lines 125-128: process_func(audio_to_process); its exception is caught and printed
Worker126(w) ==
    /\ wk[w].pc = "w_126"
    /\ \E failed \in BOOLEAN :
        /\ failed => faultsLeft > 0
        /\ faultsLeft' = IF failed THEN faultsLeft - 1 ELSE faultsLeft
        /\ emitted' = Append(emitted, [chunk |-> wk[w].loc, worker |-> w,
                                       running |-> is_running, raised |-> failed])
        /\ WGoto(w, AfterProcessFunc(failed), <<>>)
    /\ UNCHANGED <<sample_rate, chunk_duration, is_running, is_recording, stream,
       audio_queue, accumulated_audio, recording_buffer, processing_thread, hw,
       pc, stack, process_func, call, retval, cb, frames, marks, callsLeft,
       framesLeft, maxFrameLen, app_is_recording, is_active, current_keys,
       last_toggle_time, listener, keyq, now, signals, audio_data, saved,
       event, keysLeft, is_loaded, is_processing, tr>>

Retained_All(a) == a

\* line 131, the expression:
\* accumulated_audio[-self.overlap:] if len(accumulated_audio) > self.overlap else []
Retained(a) == IF Len(a) > overlap THEN LastN(a, overlap) ELSE <<>>

\* line 131, right-hand side
Worker131Trim(w) ==
    /\ wk[w].pc = "w_131r"
    /\ WGoto(w, "w_131w", Retained(accumulated_audio))
    /\ UNCHANGED <<sample_rate, chunk_duration, is_running, is_recording, stream,
       audio_queue, accumulated_audio, recording_buffer, processing_thread, hw,
       pc, stack, process_func, call, retval, cb, emitted, frames, marks,
       callsLeft, framesLeft, faultsLeft, maxFrameLen, app_is_recording,
       is_active, current_keys, last_toggle_time, listener, keyq, now, signals,
       audio_data, saved, event, keysLeft, is_loaded, is_processing, tr>>

\* line 131, assignment
Worker131Store(w) ==
    /\ wk[w].pc = "w_131w"
    /\ accumulated_audio' = wk[w].loc
    /\ WGoto(w, "w_107", <<>>)
    /\ UNCHANGED <<sample_rate, chunk_duration, is_running, is_recording, stream,
       audio_queue, recording_buffer, processing_thread, hw, pc, stack,
       process_func, call, retval, cb, emitted, frames, marks, callsLeft,
       framesLeft, faultsLeft, maxFrameLen, app_is_recording, is_active,
       current_keys, last_toggle_time, listener, keyq, now, signals,
       audio_data, saved, event, keysLeft, is_loaded, is_processing, tr>>

\* ======================================================= SpeechTranscriber
\* The keyboard delivers an event; the listener thread handles events one at a time.
KeyEvent ==
    /\ keysLeft > 0
    /\ listener = "running"
    /\ \E k \in Keys, kind \in {"press", "release"} :
        keyq' = Append(keyq, [key |-> k, kind |-> kind, at |-> now])
    /\ keysLeft' = keysLeft - 1
    /\ UNCHANGED <<sample_rate, chunk_duration, is_running, is_recording, stream,
       audio_queue, accumulated_audio, recording_buffer, processing_thread, hw,
       pc, stack, process_func, call, retval, cb, wk, emitted, frames, marks,
       callsLeft, framesLeft, faultsLeft, maxFrameLen, app_is_recording,
       is_active, current_keys, last_toggle_time, listener, now, signals,
       audio_data, saved, event, is_loaded, is_processing, tr>>

\* Time passes. The listener reads the clock at lines 182 and 186 only, and an idle
\* listener handles a pending event before the clock moves on.
Tick ==
    /\ now < MaxTime
    /\ \/ pc[1] = "main_186"
       \/ pc[1] = "idle" /\ (keyq = <<>> \/ listener # "running")
    /\ now' = now + 1
    /\ UNCHANGED <<sample_rate, chunk_duration, is_running, is_recording, stream,
       audio_queue, accumulated_audio, recording_buffer, processing_thread, hw,
       pc, stack, process_func, call, retval, cb, wk, emitted, frames, marks,
       callsLeft, framesLeft, faultsLeft, maxFrameLen, app_is_recording,
       is_active, current_keys, last_toggle_time, listener, keyq, signals,
       audio_data, saved, event, keysLeft, is_loaded, is_processing, tr>>

DebouncePassed_Always == TRUE

\* line 182: not hasattr(self, 'last_toggle_time') or
\* time.time() - self.last_toggle_time > 0.5
DebouncePassed == last_toggle_time = -1 \/ now - last_toggle_time > DebounceTicks

\* lines 180-181: some combination of TOGGLE_COMBOS is held
IsToggleSignal(keys) == \E combo \in TOGGLE_COMBOS : combo \subseteq keys

\* on_key_press, lines 177-184: add the key; on a toggle combination, toggle unless
\* the last toggle ended 0.5 s ago or less
OnKeyPress(t) ==
    /\ t = 1
    /\ pc[t] = "idle"
    /\ listener = "running"
    /\ keyq # <<>>
    /\ Head(keyq).kind = "press"
    /\ keyq' = Tail(keyq)
    /\ event' = Head(keyq)
    /\ current_keys' = current_keys \cup {Head(keyq).key}
    /\ LET run == DebouncePassed IN
       IF IsToggleSignal(current_keys')
       THEN /\ signals' = Append(signals, [at |-> Head(keyq).at, executed |-> run])
            /\ pc' = [pc EXCEPT ![t] = IF run THEN "main_132" ELSE "idle"]
            /\ stack' = [stack EXCEPT ![t] = IF run THEN <<"main_186">> ELSE <<>>]
            /\ call' = [call EXCEPT ![t] =
                        [NewCall(t, "on_key_press") EXCEPT
                            !.outcome = IF run THEN "running" ELSE "ok"]]
       ELSE /\ UNCHANGED <<signals, pc, stack>>
            /\ call' = [call EXCEPT ![t] =
                        [NewCall(t, "on_key_press") EXCEPT !.outcome = "ok"]]
    /\ UNCHANGED <<sample_rate, chunk_duration, is_running, is_recording, stream,
       audio_queue, accumulated_audio, recording_buffer, processing_thread, hw,
       process_func, retval, cb, wk, emitted, frames, marks, callsLeft,
       framesLeft, faultsLeft, maxFrameLen, app_is_recording, is_active,
       last_toggle_time, listener, now, audio_data, saved, keysLeft, is_loaded,
       is_processing, tr>>

\* on_key_press, line 186: self.last_toggle_time = time.time()
OnKeyPress186(t) ==
    /\ pc[t] = "main_186"
    /\ last_toggle_time' = now
    /\ Return(t, call[t], <<>>)
    /\ UNCHANGED <<sample_rate, chunk_duration, is_running, is_recording, stream,
       audio_queue, accumulated_audio, recording_buffer, processing_thread, hw,
       process_func, cb, wk, emitted, frames, marks, callsLeft, framesLeft,
       faultsLeft, maxFrameLen, app_is_recording, is_active, current_keys,
       keyq, now, signals, audio_data, saved, event, keysLeft, is_loaded,
       is_processing, tr>>

\* on_key_release, lines 191-195
OnKeyRelease(t) ==
    /\ t = 1
    /\ pc[t] = "idle"
    /\ listener = "running"
    /\ keyq # <<>>
    /\ Head(keyq).kind = "release"
    /\ keyq' = Tail(keyq)
    /\ event' = Head(keyq)
    /\ current_keys' = current_keys \ {Head(keyq).key}
    /\ call' = [call EXCEPT ![t] =
                [NewCall(t, "on_key_release") EXCEPT !.outcome = "ok"]]
    /\ UNCHANGED <<sample_rate, chunk_duration, is_running, is_recording, stream,
       audio_queue, accumulated_audio, recording_buffer, processing_thread, hw,
       pc, stack, process_func, retval, cb, wk, emitted, frames, marks,
       callsLeft, framesLeft, faultsLeft, maxFrameLen, app_is_recording,
       is_active, last_toggle_time, listener, now, signals, audio_data, saved,
       keysLeft, is_loaded, is_processing, tr>>

\* ------------------------------------------------------------------- toggle
\* line 132: if self.is_recording; line 137: self.audio_manager.stop_recording();
\* line 165: self.audio_manager.start(None)
Toggle132(t) ==
    /\ pc[t] = "main_132"
    /\ IF app_is_recording
       THEN /\ CallFrom(t, "stoprec_149", "main_139")
            /\ UNCHANGED process_func
       ELSE /\ CallFrom(t, "start_57", "main_168")
            /\ process_func' = [process_func EXCEPT ![t] = FALSE]
    /\ UNCHANGED <<sample_rate, chunk_duration, is_running, is_recording, stream,
       audio_queue, accumulated_audio, recording_buffer, processing_thread, hw,
       cb, wk, emitted, frames, marks, callsLeft, framesLeft, faultsLeft,
       maxFrameLen, app_is_recording, is_active, current_keys,
       last_toggle_time, keyq, now, signals, audio_data, saved, event,
       keysLeft, is_loaded, is_processing, tr>>

\* lines 137-139: audio_data = <the returned array>; if len(audio_data) > 0
Toggle139(t) ==
    /\ pc[t] = "main_139"
    /\ audio_data' = retval[t]
    /\ Jump(t, IF Len(retval[t]) > 0 THEN "main_144" ELSE "main_157")
    /\ UNCHANGED <<sample_rate, chunk_duration, is_running, is_recording, stream,
       audio_queue, accumulated_audio, recording_buffer, processing_thread, hw,
       process_func, cb, wk, emitted, frames, marks, callsLeft, framesLeft,
       faultsLeft, maxFrameLen, app_is_recording, is_active, current_keys,
       last_toggle_time, keyq, now, signals, saved, event, keysLeft, is_loaded,
       is_processing, tr>>

\* line 144: self.audio_manager.save_recording(), that is audio_manager.py lines
\* 162-190 with audio_data None: the samples written are self.recording_buffer as
\* it is now; writing the file may raise
Toggle144(t) ==
    /\ pc[t] = "main_144"
    /\ \/ /\ saved' = IF Len(recording_buffer) = 0 THEN saved
                      ELSE Append(saved, recording_buffer)
          /\ Jump(t, "main_147")
          /\ UNCHANGED faultsLeft
       \/ /\ Len(recording_buffer) # 0
          /\ faultsLeft > 0
          /\ faultsLeft' = faultsLeft - 1
          /\ Raise(t)
          /\ UNCHANGED saved
    /\ UNCHANGED <<sample_rate, chunk_duration, is_running, is_recording, stream,
       audio_queue, accumulated_audio, recording_buffer, processing_thread, hw,
       process_func, cb, wk, emitted, frames, marks, callsLeft, framesLeft,
       maxFrameLen, app_is_recording, is_active, current_keys,
       last_toggle_time, keyq, now, signals, audio_data, event, keysLeft,
       is_loaded, is_processing, tr>>

\* line 147: self.transcriber.transcribe_full_recording(audio_data), which catches
\* its own exceptions; line 150: self.audio_manager.stop()
Toggle147(t) ==
    /\ pc[t] = "main_147"
    /\ CallFrom(t, "stop_85", "main_153")
    /\ UNCHANGED <<sample_rate, chunk_duration, is_running, is_recording, stream,
       audio_queue, accumulated_audio, recording_buffer, processing_thread, hw,
       process_func, cb, wk, emitted, frames, marks, callsLeft, framesLeft,
       faultsLeft, maxFrameLen, app_is_recording, is_active, current_keys,
       last_toggle_time, keyq, now, signals, audio_data, saved, event,
       keysLeft, is_loaded, is_processing, tr>>

\* lines 153-154 and 157-158: self.is_recording = False; self.is_active = False
ToggleReset(t) ==
    /\ pc[t] \in {"main_153", "main_157"}
    /\ app_is_recording' = FALSE
    /\ is_active' = FALSE
    /\ Return(t, call[t], <<>>)
    /\ UNCHANGED <<sample_rate, chunk_duration, is_running, is_recording, stream,
       audio_queue, accumulated_audio, recording_buffer, processing_thread, hw,
       process_func, cb, wk, emitted, frames, marks, callsLeft, framesLeft,
       faultsLeft, maxFrameLen, current_keys, last_toggle_time, keyq, now,
       signals, audio_data, saved, event, keysLeft, is_loaded, is_processing,
       tr>>

\* line 168: self.audio_manager.start_recording()
Toggle168(t) ==
    /\ pc[t] = "main_168"
    /\ CallFrom(t, "startrec_140", "main_171")
    /\ UNCHANGED <<sample_rate, chunk_duration, is_running, is_recording, stream,
       audio_queue, accumulated_audio, recording_buffer, processing_thread, hw,
       process_func, cb, wk, emitted, frames, marks, callsLeft, framesLeft,
       faultsLeft, maxFrameLen, app_is_recording, is_active, current_keys,
       last_toggle_time, keyq, now, signals, audio_data, saved, event,
       keysLeft, is_loaded, is_processing, tr>>

\* lines 171-172: self.is_recording = True; self.is_active = True
Toggle171(t) ==
    /\ pc[t] = "main_171"
    /\ app_is_recording' = TRUE
    /\ is_active' = TRUE
    /\ Return(t, call[t], <<>>)
    /\ UNCHANGED <<sample_rate, chunk_duration, is_running, is_recording, stream,
       audio_queue, accumulated_audio, recording_buffer, processing_thread, hw,
       process_func, cb, wk, emitted, frames, marks, callsLeft, framesLeft,
       faultsLeft, maxFrameLen, current_keys, last_toggle_time, keyq, now,
       signals, audio_data, saved, event, keysLeft, is_loaded, is_processing,
       tr>>


\* ================================================================ Transcriber
\* transcribe (lines 83-134), transcribe_full_recording (136-186) and transcribe_file
\* (188-242) have the same statements; the labels are the line numbers of transcribe.
TransOps == {"transcribe", "transcribe_full_recording", "transcribe_file"}

\* load_model, lines 43-67: no-op when loaded; whisper.load_model may raise, which is
\* caught and printed, leaving is_loaded False
LoadModel(t) ==
    /\ pc[t] = "idle"
    /\ callsLeft[t] > 0
    /\ callsLeft' = [callsLeft EXCEPT ![t] = @ - 1]
    /\ call' = [call EXCEPT ![t] = [NewCall(t, "load_model") EXCEPT !.outcome = "ok"]]
    /\ \E ok \in BOOLEAN : is_loaded' = (is_loaded \/ ok)
    /\ UNCHANGED <<sample_rate, chunk_duration, is_running, is_recording, stream,
       audio_queue, accumulated_audio, recording_buffer, processing_thread, hw,
       pc, stack, process_func, retval, cb, wk, emitted, frames, marks,
       framesLeft, faultsLeft, maxFrameLen, app_is_recording, is_active,
       current_keys, last_toggle_time, listener, keyq, now, signals,
       audio_data, saved, event, keysLeft, is_processing, tr>>

\* unload_model, lines 69-77
UnloadModel(t) ==
    /\ pc[t] = "idle"
    /\ callsLeft[t] > 0
    /\ callsLeft' = [callsLeft EXCEPT ![t] = @ - 1]
    /\ call' = [call EXCEPT ![t] = [NewCall(t, "unload_model") EXCEPT !.outcome = "ok"]]
    /\ is_loaded' = FALSE
    /\ UNCHANGED <<sample_rate, chunk_duration, is_running, is_recording, stream,
       audio_queue, accumulated_audio, recording_buffer, processing_thread, hw,
       pc, stack, process_func, retval, cb, wk, emitted, frames, marks,
       framesLeft, faultsLeft, maxFrameLen, app_is_recording, is_active,
       current_keys, last_toggle_time, listener, keyq, now, signals,
       audio_data, saved, event, keysLeft, is_processing, tr>>

CallTranscribe(t) ==
    /\ \E op \in TransOps : Invoke(t, op, "tr_93")
    /\ tr' = [tr EXCEPT ![t] = [NoTrans EXCEPT !.loaded0 = is_loaded,
                                              !.busy0 = is_processing]]
    /\ UNCHANGED <<sample_rate, chunk_duration, is_running, is_recording, stream,
       audio_queue, accumulated_audio, recording_buffer, processing_thread, hw,
       process_func, cb, wk, emitted, frames, marks, framesLeft, faultsLeft,
       maxFrameLen, app_is_recording, is_active, current_keys,
       last_toggle_time, keyq, now, signals, audio_data, saved, event,
       keysLeft, is_loaded, is_processing>>

\* lines 93-94: if not self.is_loaded: self.load_model()
Trans93(t) ==
    /\ pc[t] = "tr_93"
    /\ \E ok \in BOOLEAN : is_loaded' = (is_loaded \/ ok)
    /\ Jump(t, "tr_96")
    /\ UNCHANGED <<sample_rate, chunk_duration, is_running, is_recording, stream,
       audio_queue, accumulated_audio, recording_buffer, processing_thread, hw,
       process_func, cb, wk, emitted, frames, marks, callsLeft, framesLeft,
       faultsLeft, maxFrameLen, app_is_recording, is_active, current_keys,
       last_toggle_time, keyq, now, signals, audio_data, saved, event,
       keysLeft, is_processing, tr>>

\* lines 96-98: if not self.is_loaded or self.is_processing: return None
Trans96(t) ==
    /\ pc[t] = "tr_96"
    /\ IF ~is_loaded \/ is_processing
       THEN /\ tr' = [tr EXCEPT ![t].guard = "skip", ![t].result = "None"]
            /\ Return(t, call[t], <<>>)
       ELSE /\ tr' = [tr EXCEPT ![t].guard = "run"]
            /\ Jump(t, "tr_100")
    /\ UNCHANGED <<sample_rate, chunk_duration, is_running, is_recording, stream,
       audio_queue, accumulated_audio, recording_buffer, processing_thread, hw,
       process_func, cb, wk, emitted, frames, marks, callsLeft, framesLeft,
       faultsLeft, maxFrameLen, app_is_recording, is_active, current_keys,
       last_toggle_time, keyq, now, signals, audio_data, saved, event,
       keysLeft, is_loaded, is_processing>>

\* line 100: self.is_processing = True
Trans100(t) ==
    /\ pc[t] = "tr_100"
    /\ is_processing' = TRUE
    /\ Jump(t, "tr_104")
    /\ UNCHANGED <<sample_rate, chunk_duration, is_running, is_recording, stream,
       audio_queue, accumulated_audio, recording_buffer, processing_thread, hw,
       process_func, cb, wk, emitted, frames, marks, callsLeft, framesLeft,
       faultsLeft, maxFrameLen, app_is_recording, is_active, current_keys,
       last_toggle_time, keyq, now, signals, audio_data, saved, event,
       keysLeft, is_loaded, tr>>

\* What the try block of lines 103-132 can do. "result": the model returns text and the
\* callback returns; "empty": the model returns no text, the callback is not invoked;
\* "model_error": self.model.transcribe raises (also when unload_model has set
\* self.model to None); "callback_error": the callback raises; "missing_file": line
\* 212 of transcribe_file. Every exception is caught at line 128.
TryOutcomes(op) ==
    {"result", "empty", "model_error", "callback_error"}
        \cup (IF op = "transcribe_file" THEN {"missing_file"} ELSE {})

\* lines 103-132: the try block
Trans104(t) ==
    /\ pc[t] = "tr_104"
    /\ \E o \in TryOutcomes(call[t].op) :
        tr' = [tr EXCEPT ![t].called = o \in {"result", "callback_error"},
                         ![t].result = IF o \in {"result", "empty"} THEN "result"
                                                                   ELSE "None"]
    /\ Jump(t, "tr_134")
    /\ UNCHANGED <<sample_rate, chunk_duration, is_running, is_recording, stream,
       audio_queue, accumulated_audio, recording_buffer, processing_thread, hw,
       process_func, cb, wk, emitted, frames, marks, callsLeft, framesLeft,
       faultsLeft, maxFrameLen, app_is_recording, is_active, current_keys,
       last_toggle_time, keyq, now, signals, audio_data, saved, event,
       keysLeft, is_loaded, is_processing>>

ProcessingAfterCall_Kept == is_processing

\* line 134, the value assigned in the finally clause: False
ProcessingAfterCall == FALSE

\* lines 133-134: finally: self.is_processing = False, then the return takes effect
Trans134(t) ==
    /\ pc[t] = "tr_134"
    /\ is_processing' = ProcessingAfterCall
    /\ Return(t, call[t], <<>>)
    /\ UNCHANGED <<sample_rate, chunk_duration, is_running, is_recording, stream,
       audio_queue, accumulated_audio, recording_buffer, processing_thread, hw,
       process_func, cb, wk, emitted, frames, marks, callsLeft, framesLeft,
       faultsLeft, maxFrameLen, app_is_recording, is_active, current_keys,
       last_toggle_time, keyq, now, signals, audio_data, saved, event,
       keysLeft, is_loaded, tr>>

TransSteps(t) ==
    \/ Trans93(t) \/ Trans96(t) \/ Trans100(t) \/ Trans104(t) \/ Trans134(t)

\* ================================================================ the system
StartSteps(t) ==
    \/ Start57(t) \/ Start60(t) \/ Start61(t) \/ Start64(t) \/ Start73(t) \/ Start81(t)

StopSteps(t) ==
    \/ Stop85(t) \/ Stop88(t) \/ Stop90(t) \/ Stop91(t) \/ Stop92(t) \/ Stop93(t)
    \/ Stop96(t) \/ Stop103(t)

StartRecSteps(t) ==
    \/ StartRec140(t) \/ StartRec141(t) \/ StartRec144(t) \/ StartRec145(t)

StopRecSteps(t) ==
    \/ StopRec149(t) \/ StopRec153(t) \/ StopRec154(t)

ToggleSteps(t) ==
    \/ Toggle132(t) \/ Toggle139(t) \/ Toggle144(t) \/ Toggle147(t) \/ ToggleReset(t)
    \/ Toggle168(t) \/ Toggle171(t)

Worker(w) ==
    \/ Worker107(w) \/ Worker110(w) \/ Worker111Concat(w) \/ Worker111Store(w)
    \/ Worker114(w) \/ Worker118(w) \/ Worker126(w) \/ Worker131Trim(w)
    \/ Worker131Store(w)

AudioCallback ==
    \/ AudioCallbackPut \/ AudioCallbackTest \/ AudioCallbackAppend \/ AudioCallbackStore

\* the AudioManager under calls from controller threads
Next ==
    \/ \E t \in Threads :
        \/ CallStart(t) \/ CallStop(t) \/ CallStartRecording(t) \/ CallStopRecording(t)
        \/ StartSteps(t) \/ StopSteps(t) \/ StartRecSteps(t) \/ StopRecSteps(t)
    \/ \E w \in 1..Len(wk) : Worker(w)
    \/ AudioCallback

\* recording sessions: start_recording and stop_recording under the hardware callback
NextRec ==
    \/ \E t \in Threads :
        \/ CallStartRecording(t) \/ CallStopRecording(t)
        \/ StartSteps(t) \/ StartRecSteps(t) \/ StopRecSteps(t)
    \/ AudioCallback

\* the chunk worker fed by the hardware, after one start(process_func)
NextChunk ==
    \/ \E t \in Threads : CallStart(t) \/ StartSteps(t)
    \/ \E w \in 1..Len(wk) : Worker(w)
    \/ AudioCallbackPut \/ AudioCallbackTest

\* the application driven by the keyboard
NextKeys ==
    \/ KeyEvent
    \/ Tick
    \/ \E t \in Threads :
        \/ OnKeyPress(t) \/ OnKeyPress186(t) \/ OnKeyRelease(t) \/ ToggleSteps(t)
        \/ StartSteps(t) \/ StopSteps(t) \/ StopRecSteps(t)
        \/ StartRec140(t) \/ StartRec141(t) \/ StartRec144(t)
    \/ AudioCallback

Spec == Init /\ [][Next]_vars

SpecConc == InitConc /\ [][Next]_vars

SpecRec == InitRec /\ [][NextRec]_vars

SpecChunk == InitChunk /\ [][NextChunk]_vars

SpecFeed == InitFeed /\ [][NextChunk]_vars

SpecAny == InitAny /\ [][NextChunk]_vars

SpecKeys == InitKeys /\ [][NextKeys]_vars

\* start() and stop() from one thread, the hardware and the workers
NextLive ==
    \/ \E t \in Threads :
        \/ CallStart(t) \/ CallStop(t)
        \/ StartSteps(t) \/ StopSteps(t)
    \/ \E w \in 1..Len(wk) : Worker(w)
    \/ AudioCallbackPut \/ AudioCallbackTest

\* a step of the w-th worker thread started in the run
WorkerStep(w) == w <= Len(wk) /\ Worker(w)

\* Worker threads are scheduled: a worker that can take a step eventually takes one
\* (queue.get(timeout=0.5) returns within the timeout, process_func returns).
SpecLive ==
    /\ InitLive /\ [][NextLive]_vars
    /\ \A w \in 1..MaxLiveCalls : WF_vars(WorkerStep(w))

\* the Transcriber under calls from two threads
NextTrans ==
    \E t \in Threads :
        \/ LoadModel(t) \/ UnloadModel(t) \/ CallTranscribe(t)
        \/ TransSteps(t)

SpecTrans == InitTrans /\ [][NextTrans]_vars


\* ==================================================================== claims
\* the top-level call of thread t has returned normally / has raised
Returned(t, name) == call[t].op = name /\ call[t].outcome = "ok"
Raised(t, name) == call[t].op = name /\ call[t].outcome = "raised"

\* the samples of the frames whose numbers are in S, in delivery order
RECURSIVE ConcatFrames(_, _)
ConcatFrames(i, S) ==
    IF i > Len(frames) THEN <<>>
    ELSE (IF i \in S THEN frames[i] ELSE <<>>) \o ConcatFrames(i + 1, S)

\* Frames whose callback ran wholly inside the latest session (it began after
\* start_recording returned and ended before stop_recording was called), and frames
\* whose callback overlapped the session at all.
FramesInside == {f \in 1..Len(frames) : marks.b2 < f /\ f <= marks.e3}
FramesTouching == {f \in 1..Len(frames) : marks.e1 < f /\ f <= marks.b4}

\* C1: the array stop_recording() returns is the concatenation, in delivery order,
\* of the frames delivered during that session: every frame delivered wholly inside
\* it, none delivered wholly outside it, each once. (Frames whose callback overlaps
\* the start or the end of the session may count either way.)
C1_SessionIsItsFrames ==
    (Returned(1, "stop_recording") /\ call[1].active) =>
        \E S \in SUBSET (1..Len(frames)) :
            /\ FramesInside \subseteq S
            /\ S \subseteq FramesTouching
            /\ retval[1] = ConcatFrames(1, S)

\* C2: the last overlap samples of each chunk passed to process_func are the first
\* overlap samples of the next one.
C2_ChunksOverlap ==
    \A k \in 1..(Len(emitted) - 1) :
        LastN(emitted[k].chunk, overlap) = Take(emitted[k + 1].chunk, overlap)

\* C3: after stop() returns from an active state the engine is Idle: not running,
\* no stream held, not recording.
C3_StopLeavesIdle ==
    \A t \in Threads :
        (Returned(t, "stop") /\ call[t].active) =>
            ~is_running /\ stream = 0 /\ ~is_recording

\* C4: when capturing ran without a processing callback (no worker thread was
\* started), after stop() returns the frame queue and the RollingBuffer are empty,
\* however many frames the hardware delivered.
C4_StopEmptiesQueue ==
    \A t \in Threads :
        (Returned(t, "stop") /\ call[t].active /\ wk = <<>>) =>
            audio_queue = <<>> /\ accumulated_audio = <<>>

\* a stop() that drained delivered frames has returned
C4_Witness ==
    /\ Returned(1, "stop") /\ call[1].active /\ wk = <<>>
    /\ Len(frames) = MaxFrames
    /\ audio_queue = <<>>

\* C5: when start() raises, the engine is left Idle: not running, no stream held,
\* no worker running.
C5_FailedStartLeavesIdle ==
    \A t \in Threads :
        Raised(t, "start") => ~is_running /\ stream = 0 /\ LiveWorkers = {}

\* C6: stop() never raises.
C6_StopNeverRaises == \A t \in Threads : ~Raised(t, "stop")

\* C7: process_func is never invoked while is_running is False.
C7_NoChunkAfterStop == \A i \in 1..Len(emitted) : emitted[i].running

\* C8: concurrent calls behave as if serialized: at most one hardware stream is open
\* and at most one worker runs.
C8_OneStreamOneWorker ==
    Cardinality(OpenStreams) <= 1 /\ Cardinality(LiveWorkers) <= 1

\* two toggle signals that arrived less than 500 ms apart
CloseSignals(i, j) ==
    i < j /\ signals[j].at - signals[i].at < DebounceTicks

C10_SecondStopIsNoOp ==
    [][\A t \in Threads :
        /\ (pc[t] = "stop_85" /\ call[t].prev = "stop" /\ pc'[t] # pc[t]) =>
              /\ avars' = avars
              /\ pc'[t] = "idle" /\ call'[t].outcome = "ok"
        /\ (/\ pc[t] = "stoprec_149"
            /\ call[t].prev = "stop_recording" \/ ~is_recording
            /\ pc'[t] # pc[t]) =>
              /\ avars' = avars
              /\ pc'[t] = "idle" /\ call'[t].outcome = "ok"
              /\ retval'[t] = <<>>]_vars

\* a second stop() in a row has returned, after frames had been captured
C10_Witness ==
    /\ Returned(1, "stop") /\ call[1].prev = "stop" /\ ~call[1].active
    /\ Len(frames) > 0

\* the first call ever made was start_recording(), and a stop_recording() followed it
FirstSessionStarted ==
    Returned(1, "start_recording") /\ callsLeft[1] = MaxRecCalls - 1
FirstSessionStopped ==
    /\ Returned(1, "stop_recording") /\ call[1].prev = "start_recording"
    /\ callsLeft[1] = MaxRecCalls - 2

\* C11: from Idle, start_recording() alone leaves the engine recording with the stream
\* open and no chunk worker; the stop_recording() that follows returns the frames
\* delivered since (a frame whose callback overlaps the call may count either way)
\* and leaves the engine capturing: running, stream open, not recording.
C11_ImplicitStart ==
    /\ FirstSessionStarted =>
          is_recording /\ is_running /\ StreamState = "active" /\ wk = <<>>
    /\ FirstSessionStopped =>
          /\ ~is_recording /\ is_running /\ StreamState = "active" /\ wk = <<>>
          /\ \E S \in SUBSET (1..Len(frames)) :
                /\ FramesInside \subseteq S
                /\ S \subseteq FramesTouching
                /\ retval[1] = ConcatFrames(1, S)

\* the first session was stopped and returned every frame the hardware delivered
C11_Witness ==
    /\ FirstSessionStopped
    /\ Len(frames) = MaxRecFrames
    /\ retval[1] = Flatten(frames)

\* every sample of SpecFeed has been delivered and the worker has consumed them all
AllFed ==
    /\ NumSamples = FeedSamples
    /\ audio_queue = <<>> /\ cb.pc = "idle"
    /\ wk # <<>> /\ wk[1].pc \in {"w_107", "w_110"}

\* samples delivered up to and including frame n
SamplesUpTo(n) == Len(Flatten(SubSeq(frames, 1, n)))

\* samples delivered when the frame that completed the chunk arrived
SamplesAtEmission ==
    SamplesUpTo(CHOOSE n \in 1..Len(frames) :
                    /\ SamplesUpTo(n) >= chunk_size
                    /\ \A m \in 1..(n - 1) : SamplesUpTo(m) < chunk_size)

\* C12 as claimed: 2.5 s of samples fed to a worker with chunk_duration 2.0 s, in one
\* frame or many, give exactly one chunk of chunk_size samples and leave a
\* RollingBuffer of overlap samples.
C12_OneChunkOverlapLeft ==
    AllFed =>
        /\ Len(emitted) = 1 /\ Len(emitted[1].chunk) = chunk_size
        /\ Len(accumulated_audio) = overlap

\* C12, amended: exactly one chunk, the first chunk_size samples, is emitted; the
\* RollingBuffer is left with the last overlap samples delivered up to the frame that
\* completed the chunk, followed by all samples of the later frames; the trim that
\* follows the emission stores exactly overlap samples.
C12_OneChunkTailLeft ==
    /\ AllFed =>
          /\ Len(emitted) = 1
          /\ emitted[1].chunk = Take(Flatten(frames), chunk_size)
          /\ Len(emitted[1].chunk) = chunk_size
          /\ accumulated_audio =
                SubSeq(Flatten(frames), SamplesAtEmission - overlap + 1, FeedSamples)
    /\ \A w \in 1..Len(wk) : wk[w].pc = "w_131w" => Len(wk[w].loc) = overlap

\* the samples were fed as more than one frame and a frame came after the emission
C12_Witness ==
    /\ AllFed /\ Len(frames) > 1
    /\ Len(emitted) = 1
    /\ Len(accumulated_audio) > overlap

\* C13: whenever no call is in progress and nothing has failed, Recording implies
\* Capturing: is_recording is True only while is_running is True and the stream is
\* open and started.
C13_RecordingImpliesCapturing ==
    (/\ \A t \in Threads : pc[t] = "idle"
     /\ faultsLeft = MaxFaults
     /\ is_recording) =>
        is_running /\ StreamState = "active"

\* C14: when process_func raises, the worker goes on to the trim of line 131 as after
\* a successful call and keeps running, and no chunk is passed to process_func twice.
C14_FailedChunkNotRetried ==
    [][/\ \A w \in 1..Len(wk) :
            (wk[w].pc = "w_126" /\ wk'[w].pc # "w_126") =>
                /\ wk'[w].pc = "w_131r"
                /\ Len(emitted') = Len(emitted) + 1
       /\ \A i, j \in 1..Len(emitted') :
            i < j => emitted'[i].chunk # emitted'[j].chunk]_vars

\* process_func raised on a chunk and the worker emitted a later chunk
C14_Witness ==
    /\ Len(emitted) = 2
    /\ emitted[1].raised /\ ~emitted[2].raised
    /\ emitted[1].worker = emitted[2].worker

\* C15: start() made while the engine is running returns without changing any field,
\* opening a stream or starting a worker; start_recording() made while it is running
\* opens no stream, starts no worker and leaves the frame queue and the RollingBuffer
\* alone; and at most one hardware stream is open at any time.
C15_ActiveStartIsNoOp ==
    [][/\ \A t \in Threads :
            /\ (pc[t] = "start_57" /\ is_running /\ pc'[t] # pc[t]) =>
                  avars' = avars /\ hw' = hw /\ wk' = wk
            /\ (pc[t] = "startrec_144" /\ is_running /\ pc'[t] # pc[t]) =>
                  /\ hw' = hw /\ wk' = wk /\ stream' = stream
                  /\ audio_queue' = audio_queue
                  /\ accumulated_audio' = accumulated_audio
       /\ Cardinality(OpenStreams') <= 1]_vars

\* C16: every AudioManager that can be constructed has overlap < chunk_size.
C16_OverlapBelowChunk == overlap < chunk_size

\* what C17 claims the trim keeps of a: its last overlap samples, or all of a when
\* it is shorter than that
ClaimedTail(a) ==
    IF Len(a) <= overlap THEN a ELSE SubSeq(a, Len(a) - overlap + 1, Len(a))

\* C17: the trim that follows an emission leaves the last overlap samples of the
\* RollingBuffer, or all of it when it is shorter than overlap, and so at most
\* chunk_size samples.
C17_TrimKeepsTail ==
    [][\A w \in 1..Len(wk) :
        (wk[w].pc = "w_131w" /\ wk'[w].pc # "w_131w") =>
            /\ accumulated_audio' = ClaimedTail(accumulated_audio)
            /\ Len(accumulated_audio') <= chunk_size]_vars

\* the w-th worker thread is in its loop
InLoop(w) == w <= Len(wk) /\ wk[w].pc # "exited"

\* C18: once is_running is False, every worker in its loop eventually leaves it,
\* unless a later start() sets is_running again first.
C18_WorkerExits ==
    \A w \in 1..MaxLiveCalls : (InLoop(w) /\ ~is_running) ~> (~InLoop(w) \/ is_running)

\* stop() has returned and a worker that had emitted a chunk has left its loop
C18_Witness ==
    /\ Returned(1, "stop") /\ call[1].active /\ ~is_running
    /\ wk # <<>> /\ wk[1].pc = "exited"
    /\ Len(emitted) > 0

\* C19: with one controlling thread and no failure, at most one worker thread is in
\* the processing loop at any time.
C19_OneWorkerPerSession ==
    faultsLeft = MaxFaults => Cardinality(LiveWorkers) <= 1

\* executions of toggle() so far
ToggleCount == Cardinality({i \in 1..Len(signals) : signals[i].executed})

\* C20: when the listener is between events and nothing has failed, after an odd
\* number of executed toggle() calls the AudioManager is recording with the stream
\* open, and after an even number it is Idle: not recording, not running, no stream.
C20_ToggleAlternates ==
    (pc[1] = "idle" /\ listener = "running" /\ faultsLeft = MaxFaults) =>
        IF ToggleCount % 2 = 1
        THEN is_recording /\ is_running /\ StreamState = "active"
        ELSE ~is_recording /\ ~is_running /\ stream = 0

\* C21: the frames pending in the frame queue stay below a bound that does not grow
\* with the number of frames delivered: here, below the number of frames the
\* hardware delivers in a run.
C21_QueueBounded == Len(audio_queue) < MaxRecFrames

\* C22: once a stop() that ended a session has returned and every worker has left its
\* loop, the RollingBuffer and the frame queue are empty.
C22_ResetNotUndone ==
    (/\ Returned(1, "stop") /\ call[1].active
     /\ wk # <<>> /\ LiveWorkers = {}) =>
        accumulated_audio = <<>> /\ audio_queue = <<>>

\* C23: whenever no toggle() is executing, the application's is_recording flag equals
\* the AudioManager's.
C23_FlagsAgree == pc[1] = "idle" => app_is_recording = is_recording

\* C24: in a toggle() that stops a session, the samples save_recording() wrote are
\* the array stop_recording() returned, which is passed to the transcriber.
C24_SavedIsSnapshot ==
    pc[1] = "main_147" => (saved # <<>> /\ saved[Len(saved)] = audio_data)

\* a transcription call of thread t has passed line 100 and not yet line 134
Transcribing(t) == pc[t] \in {"tr_104", "tr_134"}

\* thread t is inside a transcription call
InTransCall(t) == pc[t] \in {"tr_93", "tr_96", "tr_100", "tr_104", "tr_134"}

\* the last call of thread t was a transcription call and has returned
TransReturned(t) == call[t].op \in TransOps /\ call[t].outcome = "ok"

\* C25 as claimed: is_processing is True only while a transcription call executes and
\* is False when none does; a call made while the model was not loaded or while
\* is_processing was set returns None without invoking the callback.
C25_SkipWhenNotLoaded ==
    /\ is_processing => \E t \in Threads : Transcribing(t)
    /\ (\A t \in Threads : ~InTransCall(t)) => ~is_processing
    /\ \A t \in Threads :
          (TransReturned(t) /\ (~tr[t].loaded0 \/ tr[t].busy0)) =>
              tr[t].result = "None" /\ ~tr[t].called

\* C25, amended: is_processing is True only while a transcription call executes and
\* is False when none does; a call that, after its own load_model() attempt, finds the
\* model not loaded or is_processing set returns None at once, without invoking the
\* callback and without changing is_processing.
C25_SkipAtGuard ==
    [][/\ is_processing' => \E t \in Threads : Transcribing(t)'
       /\ (\A t \in Threads : ~InTransCall(t)') => ~is_processing'
       /\ \A t \in Threads :
            /\ (pc[t] = "tr_96" /\ pc'[t] # pc[t] /\ (~is_loaded \/ is_processing)) =>
                  /\ pc'[t] = "idle" /\ call'[t].outcome = "ok"
                  /\ is_processing' = is_processing
                  /\ tr'[t].result = "None" /\ ~tr'[t].called
            /\ (pc[t] = "tr_96" /\ pc'[t] # pc[t] /\ is_loaded /\ ~is_processing) =>
                  pc'[t] = "tr_100"]_vars

\* thread 1 made two transcription calls in a row and the second one ran; the call
\* of thread 2, made with the model loaded, was skipped as already processing
C25_Witness ==
    /\ TransReturned(1) /\ call[1].prev \in TransOps
    /\ tr[1].guard = "run" /\ tr[1].result = "result"
    /\ TransReturned(2) /\ tr[2].guard = "skip" /\ tr[2].loaded0
    /\ ~is_processing

\* C26: whenever no call is executing, the AudioManager holds a stream exactly when
\* is_running is True.
C26_StreamIffRunning ==
    (\A t \in Threads : pc[t] = "idle") => (is_running <=> stream # 0)


====
